---- MODULE Spec2Model ----
(***************************************************************************)
(* Model of the template rewriting engine of color-palette-extractor:      *)
(* colors/Theme.py (Theme.process_template) over colors/Color.py (Color).  *)
(*                                                                         *)
(* Text is a sequence of one-character strings.  Numbers that Python holds *)
(* as floats are exact rationals <<n, d>> with d > 0 in lowest terms; the  *)
(* colour library's HSV<->RGB conversions are the standard sector formulas *)
(* on those rationals.                                                     *)
(***************************************************************************)
EXTENDS Integers, Sequences, FiniteSets, TLC

(***************************************************************************)
(* Characters and text                                                     *)
(***************************************************************************)
Digit == {"0", "1", "2", "3", "4", "5", "6", "7", "8", "9"}

LowerLetters == <<"a", "b", "c", "d", "e", "f", "g", "h", "i", "j", "k", "l", "m",
                  "n", "o", "p", "q", "r", "s", "t", "u", "v", "w", "x", "y", "z">>

UpperLetters == <<"A", "B", "C", "D", "E", "F", "G", "H", "I", "J", "K", "L", "M",
                  "N", "O", "P", "Q", "R", "S", "T", "U", "V", "W", "X", "Y", "Z">>

Range(s) == {s[i] : i \in DOMAIN s}

\* \w of Python's re on the characters of the model
WordChar == Digit \cup Range(LowerLetters) \cup Range(UpperLetters) \cup {"_"}

Min(S) == CHOOSE x \in S : \A y \in S : x <= y

Max(S) == CHOOSE x \in S : \A y \in S : x >= y

\* text[i:j] of Python with 1-based inclusive first index i and last index j - 1
Slice(t, i, j) == IF j <= i THEN <<>> ELSE SubSeq(t, i, j - 1)

\* t.startswith(lit, i - 1)
HasAt(t, i, lit) == /\ i + Len(lit) - 1 <= Len(t)
                    /\ \A k \in 1..Len(lit) : t[i + k - 1] = lit[k]

\* first index >= i holding a character outside S (Len(t) + 1 when none)
RECURSIVE RunEnd(_, _, _)
RunEnd(t, i, S) == IF i > Len(t) \/ t[i] \notin S THEN i ELSE RunEnd(t, i + 1, S)

\* whether lit occurs in t
Contains(t, lit) == \E i \in 1..Len(t) : HasAt(t, i, lit)

\* str.upper() on one character
UpperChar(c) == IF \E i \in 1..26 : LowerLetters[i] = c
                THEN UpperLetters[CHOOSE i \in 1..26 : LowerLetters[i] = c]
                ELSE c

\* str.upper()
Upper(s) == [i \in 1..Len(s) |-> UpperChar(s[i])]

\* str.strip() for the whitespace of the model, the space
RECURSIVE Strip(_)
Strip(s) == IF s = <<>> THEN s
            ELSE IF Head(s) = " " THEN Strip(Tail(s))
            ELSE IF s[Len(s)] = " " THEN Strip(SubSeq(s, 1, Len(s) - 1))
            ELSE s

\* str.split(sep) for a one-character separator
RECURSIVE Split(_, _)
Split(s, sep) == LET at == {i \in 1..Len(s) : s[i] = sep}
                 IN  IF at = {} THEN <<s>>
                     ELSE <<Slice(s, 1, Min(at))>> \o Split(Slice(s, Min(at) + 1, Len(s) + 1), sep)

(***************************************************************************)
(* Rational numbers                                                        *)
(***************************************************************************)
Abs(n) == IF n < 0 THEN -n ELSE n

RECURSIVE GCD(_, _)
GCD(a, b) == IF b = 0 THEN a ELSE GCD(b, a % b)

Rat(n, d) == LET s == IF d < 0 THEN -1 ELSE 1
                 g == GCD(Abs(n), Abs(d))
             IN  <<(s * n) \div g, (s * d) \div g>>

RInt(n) == <<n, 1>>

RAdd(a, b) == Rat(a[1] * b[2] + b[1] * a[2], a[2] * b[2])

RSub(a, b) == Rat(a[1] * b[2] - b[1] * a[2], a[2] * b[2])

RMul(a, b) == Rat(a[1] * b[1], a[2] * b[2])

RDiv(a, b) == Rat(a[1] * b[2], a[2] * b[1])

RLt(a, b) == a[1] * b[2] < b[1] * a[2]

RLe(a, b) == a[1] * b[2] <= b[1] * a[2]

RFloor(a) == a[1] \div a[2]

\* float % 1.0: the result is in [0, 1)
RMod1(a) == RSub(a, RInt(RFloor(a)))

\* numpy astype(int) on a float: truncation toward zero
RTrunc(a) == IF a[1] >= 0 THEN a[1] \div a[2] ELSE -((-a[1]) \div a[2])

RMax(S) == CHOOSE x \in S : \A y \in S : RLe(y, x)

RMin(S) == CHOOSE x \in S : \A y \in S : RLe(x, y)

(***************************************************************************)
(* Numbers as text: str(int), float(str), "{:02x}".format, int(x, 16)      *)
(***************************************************************************)
DigitChars == <<"0", "1", "2", "3", "4", "5", "6", "7", "8", "9">>

HexChars == <<"0", "1", "2", "3", "4", "5", "6", "7", "8", "9", "a", "b", "c", "d", "e", "f">>

RECURSIVE NatToText(_)
NatToText(n) == IF n < 10 THEN <<DigitChars[n + 1]>>
                ELSE NatToText(n \div 10) \o <<DigitChars[(n % 10) + 1]>>

\* str(n) of a Python int
IntToText(n) == IF n < 0 THEN <<"-">> \o NatToText(-n) ELSE NatToText(n)

DigitVal(c) == (CHOOSE i \in 1..10 : DigitChars[i] = c) - 1

RECURSIVE DigitsToNat(_)
DigitsToNat(s) == IF s = <<>> THEN 0
                  ELSE 10 * DigitsToNat(SubSeq(s, 1, Len(s) - 1)) + DigitVal(s[Len(s)])

RECURSIVE Pow10(_)
Pow10(k) == IF k = 0 THEN 1 ELSE 10 * Pow10(k - 1)

\* float(x): surrounding whitespace, an optional sign, digits with an optional
\* fraction.  (Exponents, inf, nan and underscores are outside the model's alphabet.)
ParseFloat(x) ==
    LET s    == Strip(x)
        neg  == s # <<>> /\ s[1] = "-"
        body == IF s # <<>> /\ s[1] \in {"-", "+"} THEN Tail(s) ELSE s
        dots == {i \in 1..Len(body) : body[i] = "."}
        ip   == IF dots = {} THEN body ELSE Slice(body, 1, Min(dots))
        fp   == IF dots = {} THEN <<>> ELSE Slice(body, Min(dots) + 1, Len(body) + 1)
        ok   == /\ Cardinality(dots) <= 1
                /\ Len(ip) + Len(fp) > 0
                /\ \A i \in 1..Len(ip) : ip[i] \in Digit
                /\ \A i \in 1..Len(fp) : fp[i] \in Digit
        mag  == Rat(DigitsToNat(ip) * Pow10(Len(fp)) + DigitsToNat(fp), Pow10(Len(fp)))
    IN  IF ~ok THEN [err |-> "ValueError", val |-> RInt(0)]
        ELSE [err |-> "none", val |-> IF neg THEN RSub(RInt(0), mag) ELSE mag]

\* "{:02x}".format(n) for n in 0..255
Hex2(n) == <<HexChars[(n \div 16) + 1], HexChars[(n % 16) + 1]>>

HexVal(c) == IF c \in Range(HexChars) THEN (CHOOSE i \in 1..16 : HexChars[i] = c) - 1
             ELSE (CHOOSE i \in 1..16 : UpperChar(HexChars[i]) = c) - 1

TripleText_Brackets(rgb) ==
    <<"[">> \o IntToText(rgb[1]) \o <<",", " ">> \o IntToText(rgb[2])
    \o <<",", " ">> \o IntToText(rgb[3]) \o <<"]">>

\* str(list).strip("[]") of a list of three ints: comma-space joined, no brackets
TripleText(rgb) == IntToText(rgb[1]) \o <<",", " ">> \o IntToText(rgb[2])
                   \o <<",", " ">> \o IntToText(rgb[3])

(***************************************************************************)
(* colors/Color.py: a Color is its _rgb field, three rationals             *)
(***************************************************************************)
\* np.choose(i.astype(uint8), ..., mode="clip"): the sector index, clipped
SectorIndex(n) == IF n % 256 > 5 THEN 5 ELSE n % 256

\* colour.models.HSV_to_RGB, the sector formula; Color.__init__ stores its result
HSV_to_RGB(h, s, v) ==
    LET Pick(i, pp, q, t) ==
            CASE i = 0 -> <<v, t, pp>>
              [] i = 1 -> <<q, v, pp>>
              [] i = 2 -> <<pp, v, t>>
              [] i = 3 -> <<pp, q, v>>
              [] i = 4 -> <<t, pp, v>>
              [] OTHER -> <<v, pp, q>>
        Mix(i, f) == Pick(i, RMul(v, RSub(RInt(1), s)),
                          RMul(v, RSub(RInt(1), RMul(s, f))),
                          RMul(v, RSub(RInt(1), RMul(s, RSub(RInt(1), f)))))
        Sector(h6) == Mix(SectorIndex(RFloor(h6)), RSub(h6, RInt(RFloor(h6))))
        Times6(x) == Sector(IF x = RInt(6) THEN RInt(0) ELSE x)
    IN  Times6(RMul(h, RInt(6)))

\* Color.__init__(h, s, v)
Color(h, s, v) == HSV_to_RGB(h, s, v)

\* Color.hsv: colour.models.RGB_to_HSV of _rgb
hsv(c) ==
    LET Wrap(h) == IF RLt(h, RInt(0)) THEN RAdd(h, RInt(1))
                   ELSE IF RLt(RInt(1), h) THEN RSub(h, RInt(1)) ELSE h
        Hue(mx, delta) ==
            LET D(x) == RDiv(RAdd(RDiv(RSub(mx, x), RInt(6)), RDiv(delta, RInt(2))), delta)
            IN  IF mx = c[3] THEN RAdd(Rat(2, 3), RSub(D(c[2]), D(c[1])))
                ELSE IF mx = c[2] THEN RAdd(Rat(1, 3), RSub(D(c[1]), D(c[3])))
                ELSE RSub(D(c[3]), D(c[2]))
        From(mx, delta) == IF delta = RInt(0) THEN <<RInt(0), RInt(0), mx>>
                           ELSE <<Wrap(Hue(mx, delta)), RDiv(delta, mx), mx>>
        Of(mx, mn) == From(mx, RSub(mx, mn))
    IN  Of(RMax({c[1], c[2], c[3]}), RMin({c[1], c[2], c[3]}))

\* Color.rgb: (self._rgb * 255).astype(int).tolist()
rgb(c) == [k \in 1..3 |-> RTrunc(RMul(c[k], RInt(255)))]

hex_NoHash(c) ==
    LET n == [k \in 1..3 |-> RTrunc(RMul(c[k], RInt(255)))]
    IN  Hex2(n[1]) \o Hex2(n[2]) \o Hex2(n[3])

\* Color.hex: colour.notation.RGB_to_HEX of _rgb: "#" and two lowercase hex digits
\* per channel.  The library clips negative channels to 0 and rescales a colour
\* with a channel above 1 by its largest channel (through the sRGB transfer
\* functions, which are taken as linear here).
hex(c) ==
    LET pos == [k \in 1..3 |-> IF RLt(c[k], RInt(0)) THEN RInt(0) ELSE c[k]]
        mx  == RMax({pos[1], pos[2], pos[3]})
        nrm == [k \in 1..3 |-> IF RLt(RInt(1), mx) THEN RDiv(pos[k], mx) ELSE pos[k]]
        n   == [k \in 1..3 |-> RTrunc(RMul(nrm[k], RInt(255)))]
    IN  <<"#">> \o Hex2(n[1]) \o Hex2(n[2]) \o Hex2(n[3])

\* Color.from_rgb(r, g, b)
from_rgb(r, g, b) == <<RDiv(r, RInt(255)), RDiv(g, RInt(255)), RDiv(b, RInt(255))>>

\* Color.from_hex(hex_color): colour.notation.HEX_to_RGB, "#" stripped, two hex
\* digits per channel, over 255
from_hex(h) ==
    LET x == IF h # <<>> /\ h[1] = "#" THEN Tail(h) ELSE h
    IN  [k \in 1..3 |-> Rat(16 * HexVal(x[2 * k - 1]) + HexVal(x[2 * k]), 255)]

\* Color.hue_shift(delta)
hue_shift(c, delta) ==
    LET From(x) == Color(RMod1(RAdd(x[1], delta)), x[2], x[3]) IN From(hsv(c))

\* Color.hue_shifts(deltas)
hue_shifts(c, deltas) == [i \in 1..Len(deltas) |-> hue_shift(c, deltas[i])]

complementary_Third(c) == hue_shift(c, Rat(1, 3))

\* Color.complementary()
complementary(c) == hue_shift(c, Rat(1, 2))

\* Color.tint(t)
tint(c, t) ==
    LET From(x) == Color(x[1], RAdd(x[2], RMul(RSub(RInt(1), x[2]), t)),
                         RAdd(x[3], RMul(RSub(RInt(1), x[3]), t)))
    IN  From(hsv(c))

\* Color.shade(t)
shade(c, t) ==
    LET From(x) == Color(x[1], x[2], RMul(x[3], RSub(RInt(1), t))) IN From(hsv(c))

\* Color.set_hue(h)
set_hue(c, h) == LET From(x) == Color(h, x[2], x[3]) IN From(hsv(c))

\* Color.set_sat(s)
set_sat(c, s) == LET From(x) == Color(x[1], s, x[3]) IN From(hsv(c))

\* Color.set_val(v)
set_val(c, v) == LET From(x) == Color(x[1], x[2], v) IN From(hsv(c))

\* Color.lerp_target(target, pos)
lerp_target(c, target, pos) ==
    LET Build(a, b, delta) ==
            Color(RMod1(RAdd(a[1], RMul(delta, pos))),
                  RAdd(a[2], RMul(RSub(b[2], a[2]), pos)),
                  RAdd(a[3], RMul(RSub(b[3], a[3]), pos)))
        From(a, b) ==
            Build(a, b, RSub(RMod1(RAdd(RSub(b[1], a[1]), Rat(3, 2))), Rat(1, 2)))
    IN  From(hsv(c), hsv(target))

\* Color.analogous / triadic / tetradic (index): hue_shifts(offsets)[index % n].
\* index is a Python value: [int |-> TRUE, val |-> i] an int, [int |-> FALSE, ...]
\* a float, and a list subscript that is a float raises TypeError.
harmony(c, offsets, index) ==
    IF ~index.int THEN [err |-> "TypeError", val |-> c]
    ELSE [err |-> "none", val |-> hue_shifts(c, offsets)[(index.val % Len(offsets)) + 1]]

analogous(c, index) == harmony(c, <<Rat(-1, 12), Rat(1, 12)>>, index)

triadic(c, index) == harmony(c, <<Rat(1, 3), Rat(2, 3)>>, index)

tetradic(c, index) == harmony(c, <<Rat(1, 4), Rat(1, 2), Rat(3, 4)>>, index)

\* the attributes class Color defines that take numeric arguments
ColorAttributes == {"hue_shift", "hue_shifts", "complementary", "analogous", "triadic",
                    "tetradic", "tint", "shade", "set_hue", "set_sat", "set_val",
                    "lerp_target", "set_lightness", "set_chroma"}

(***************************************************************************)
(* colors/Theme.py: the registries                                         *)
(***************************************************************************)
\* Theme.FUNCTIONS, in the order of the dict literal: DSL name -> Color.<attr>.
\* The entry of LERP names Color.lerp, which class Color does not define
\* (ColorAttributes): evaluating the dict literal raises AttributeError.  The
\* renders below are those of a Theme whose registry was built nevertheless,
\* with an entry for LERP that raises this AttributeError when it is called.
FUNCTIONS == <<
    [name |-> <<"H", "U", "E", "_", "S", "H", "I", "F", "T">>, attr |-> "hue_shift"],
    [name |-> <<"L", "E", "R", "P">>, attr |-> "lerp"],
    [name |-> <<"T", "I", "N", "T">>, attr |-> "tint"],
    [name |-> <<"S", "H", "A", "D", "E">>, attr |-> "shade"],
    [name |-> <<"C", "O", "M", "P", "L", "E", "M", "E", "N", "T", "A", "R", "Y">>, attr |-> "complementary"],
    [name |-> <<"T", "R", "I", "A", "D", "I", "C">>, attr |-> "triadic"],
    [name |-> <<"T", "E", "T", "R", "A", "D", "I", "C">>, attr |-> "tetradic"],
    [name |-> <<"A", "N", "A", "L", "O", "G", "O", "U", "S">>, attr |-> "analogous"],
    [name |-> <<"H", "U", "E">>, attr |-> "set_hue"],
    [name |-> <<"V", "A", "L">>, attr |-> "set_val"],
    [name |-> <<"S", "A", "T">>, attr |-> "set_sat"]>>

\* Theme.PROPERTIES
PROPERTIES == <<[name |-> <<"H", "E", "X">>, attr |-> "hex"]>>

\* func(color, *args) for the attribute a FUNCTIONS entry names; args are floats.
\* A call with the wrong number of positional arguments raises TypeError; an
\* attribute Color does not define (lerp) raises AttributeError.
CallFunction(attr, c, args) ==
    LET n == Len(args)
        ok(x) == [err |-> "none", val |-> x]
        bad == [err |-> "TypeError", val |-> c]
        idx == IF n = 0 THEN [int |-> TRUE, val |-> 0] ELSE [int |-> FALSE, val |-> args[1]]
    IN  IF attr \notin ColorAttributes THEN [err |-> "AttributeError", val |-> c]
        ELSE IF attr = "complementary" THEN (IF n = 0 THEN ok(complementary(c)) ELSE bad)
        ELSE IF attr \in {"analogous", "triadic", "tetradic"}
             THEN (IF n > 1 THEN bad
                   ELSE IF attr = "analogous" THEN analogous(c, idx)
                   ELSE IF attr = "triadic" THEN triadic(c, idx)
                   ELSE tetradic(c, idx))
        ELSE IF n # 1 THEN bad
        ELSE IF attr = "hue_shift" THEN ok(hue_shift(c, args[1]))
        ELSE IF attr = "tint" THEN ok(tint(c, args[1]))
        ELSE IF attr = "shade" THEN ok(shade(c, args[1]))
        ELSE IF attr = "set_hue" THEN ok(set_hue(c, args[1]))
        ELSE IF attr = "set_val" THEN ok(set_val(c, args[1]))
        ELSE ok(set_sat(c, args[1]))

\* pr.__get__(color) for the property a PROPERTIES entry names
GetProperty(attr, c) == hex(c)

(***************************************************************************)
(* Theme.process_template: the helpers p, lam, prop, handle_key,           *)
(* handle_role and the compiled patterns                                   *)
(***************************************************************************)
\* p(s): [float(x) for x in s.split(',') if x.strip()]
p(s) ==
    LET parts == SelectSeq(Split(s, ","), LAMBDA x : Strip(x) # <<>>)
        bad   == {i \in 1..Len(parts) : ParseFloat(parts[i]).err # "none"}
    IN  IF bad # {} THEN [err |-> "ValueError", val |-> <<>>]
        ELSE [err |-> "none", val |-> [i \in 1..Len(parts) |-> ParseFloat(parts[i]).val]]

NoMatch == [ok |-> FALSE, g0 |-> <<>>, g1 |-> <<>>, g2 |-> <<>>, end |-> 0]

\* \d+, ?\d+, ?\d+ anchored at i: the index after it, or 0
TripleEnd(t, i) ==
    LET a  == RunEnd(t, i, Digit)
        b0 == IF HasAt(t, a + 1, <<" ">>) THEN a + 2 ELSE a + 1
        b  == RunEnd(t, b0, Digit)
        c0 == IF HasAt(t, b + 1, <<" ">>) THEN b + 2 ELSE b + 1
        c  == RunEnd(t, c0, Digit)
    IN  IF a = i \/ ~HasAt(t, a, <<",">>) THEN 0
        ELSE IF b = b0 \/ ~HasAt(t, b, <<",">>) THEN 0
        ELSE IF c = c0 THEN 0
        ELSE c

\* (\d+, ?\d+, ?\d+)\.NAME\((.*?)\) anchored at i
FuncMatch(name, t, i) ==
    LET e    == TripleEnd(t, i)
        a    == e + Len(name) + 2
        stop == {j \in a..Len(t) : t[j] \in {")", "\n"}}
    IN  IF e = 0 \/ ~HasAt(t, e, <<".">> \o name \o <<"(">>) THEN NoMatch
        ELSE IF stop = {} \/ t[Min(stop)] # ")" THEN NoMatch
        ELSE [ok |-> TRUE, g0 |-> Slice(t, i, Min(stop) + 1), g1 |-> Slice(t, i, e),
              g2 |-> Slice(t, a, Min(stop)), end |-> Min(stop) + 1]

\* (\d+, ?\d+, ?\d+)\.NAME\b anchored at i
PropMatch(name, t, i) ==
    LET e == TripleEnd(t, i)
        z == e + Len(name) + 1
    IN  IF e = 0 \/ ~HasAt(t, e, <<".">> \o name) THEN NoMatch
        ELSE IF z <= Len(t) /\ t[z] \in WordChar THEN NoMatch
        ELSE [ok |-> TRUE, g0 |-> Slice(t, i, z), g1 |-> Slice(t, i, e), g2 |-> <<>>, end |-> z]

\* WORD\((CLASS+)\) anchored at i: ROLE\((\w+)\) and KEY\((\d+)\)
CallMatch(word, class, t, i) ==
    LET a == i + Len(word) + 1
        z == RunEnd(t, a, class)
    IN  IF ~HasAt(t, i, word \o <<"(">>) \/ z = a \/ ~HasAt(t, z, <<")">>) THEN NoMatch
        ELSE [ok |-> TRUE, g0 |-> Slice(t, i, z + 1), g1 |-> Slice(t, a, z), g2 |-> <<>>,
              end |-> z + 1]

(***************************************************************************)
(* State: the Theme's fields, and process_template's locals and position   *)
(***************************************************************************)
VARIABLES
    keys,        \* self.keys: position n of Colors is keys[n + 1]
    roles,       \* self.roles: role name -> Color
    variables,   \* self.variables, in the dict's order: <<name, value>> pairs
    template,    \* the local template
    change,      \* the local change
    pc,          \* "vars" (line 64), "while" (line 67), "for" (line 69), "done"
    vidx,        \* next entry of self.variables.items()
    pidx,        \* next entry of match_to_func.items()
    outcome,     \* "running", "returned", or the exception process_template raised
    input,       \* history: the argument template
    loop0,       \* history: the text the rewrite loop started from
    passes       \* history: per started pass, the pattern indices whose sub changed the text

\* render.py: the batch driver main, and a second call of process_template that
\* runs against the same Theme
VARIABLES
    docs,        \* the files of the input directory, in os.listdir's order: their texts
    fidx,        \* main's for loop (line 43): the position of the next file
    written,     \* the output files written so far: position of the file -> text
    main,        \* "call" (process_template called directly), "loop" (line 43),
                 \* "process_file" (lines 13-18), "exit", "raised"
    other        \* the locals of the other call of process_template, or NoFrame

\* colors/Color.py: a Color object and the calls that produced it
VARIABLES
    col,         \* the Color's _rgb
    made,        \* the arguments h, s, v of the Color(h, s, v) call that built col
    ops          \* history: the operations applied, each with its argument, the
                 \* colour it was applied to and what that colour was built from

frame == <<template, change, pc, vidx, pidx, outcome, input, loop0, passes>>

driver == <<docs, fidx, written, main, other>>

colour == <<col, made, ops>>

vars == <<keys, roles, variables, template, change, pc, vidx, pidx, outcome, input,
          loop0, passes, driver, colour>>

\* no other call of process_template
NoFrame == [template |-> <<>>, change |-> FALSE, pc |-> "none", vidx |-> 0, pidx |-> 0,
            outcome |-> "none", input |-> <<>>, loop0 |-> <<>>, passes |-> <<>>]

match_to_func_PropsFirst ==
    [i \in 1..Len(PROPERTIES) |-> [kind |-> "prop", name |-> PROPERTIES[i].name,
                                   attr |-> PROPERTIES[i].attr]]
    \o [i \in 1..Len(FUNCTIONS) |-> [kind |-> "func", name |-> FUNCTIONS[i].name,
                                     attr |-> FUNCTIONS[i].attr]]
    \o <<[kind |-> "role", name |-> <<"R", "O", "L", "E">>, attr |-> "roles"],
         [kind |-> "key", name |-> <<"K", "E", "Y">>, attr |-> "keys"]>>

\* match_to_func, in insertion order: the FUNCTIONS patterns, the PROPERTIES
\* patterns, ROLE, KEY
match_to_func ==
    [i \in 1..Len(FUNCTIONS) |-> [kind |-> "func", name |-> FUNCTIONS[i].name,
                                  attr |-> FUNCTIONS[i].attr]]
    \o [i \in 1..Len(PROPERTIES) |-> [kind |-> "prop", name |-> PROPERTIES[i].name,
                                      attr |-> PROPERTIES[i].attr]]
    \o <<[kind |-> "role", name |-> <<"R", "O", "L", "E">>, attr |-> "roles"],
         [kind |-> "key", name |-> <<"K", "E", "Y">>, attr |-> "keys"]>>

\* pattern.match at index i
MatchAt(pat, t, i) ==
    IF pat.kind = "func" THEN FuncMatch(pat.name, t, i)
    ELSE IF pat.kind = "prop" THEN PropMatch(pat.name, t, i)
    ELSE IF pat.kind = "role" THEN CallMatch(pat.name, WordChar, t, i)
    ELSE CallMatch(pat.name, Digit, t, i)

\* lam(func)(match): str(func(Color.from_rgb(*p(g1)), *p(g2)).rgb).strip("[]")
lam(attr, m) ==
    LET Text(r) == IF r.err # "none" THEN [err |-> r.err, text |-> <<>>]
                   ELSE [err |-> "none", text |-> TripleText(rgb(r.val))]
        Call(a1, a2) ==
            IF a1.err # "none" THEN [err |-> a1.err, text |-> <<>>]
            ELSE IF a2.err # "none" THEN [err |-> a2.err, text |-> <<>>]
            ELSE Text(CallFunction(attr, from_rgb(a1.val[1], a1.val[2], a1.val[3]), a2.val))
    IN  Call(p(m.g1), p(m.g2))

\* prop(pr)(match): str(pr.__get__(Color.from_rgb(*p(g1))))
prop(attr, m) ==
    LET Get(a1) ==
            IF a1.err # "none" THEN [err |-> a1.err, text |-> <<>>]
            ELSE [err |-> "none",
                  text |-> GetProperty(attr, from_rgb(a1.val[1], a1.val[2], a1.val[3]))]
    IN  Get(p(m.g1))

handle_key_Subscript(m) ==
    IF DigitsToNat(m.g1) + 1 \in DOMAIN keys
    THEN [err |-> "none", text |-> TripleText(rgb(keys[DigitsToNat(m.g1) + 1]))]
    ELSE [err |-> "KeyError", text |-> <<>>]

\* handle_key(match): self.keys.get(int(g1)) is None on a miss, and the
\* AttributeError of None.rgb is caught: the match is returned unchanged
handle_key(m) ==
    LET n == DigitsToNat(m.g1)
    IN  IF n + 1 \in DOMAIN keys
        THEN [err |-> "none", text |-> TripleText(rgb(keys[n + 1]))]
        ELSE [err |-> "none", text |-> m.g0]

handle_role_Alias(m) ==
    IF m.g1 \in DOMAIN roles
    THEN [err |-> "none", text |-> <<"K", "E", "Y", "(", "0", ")", ".", "H", "E", "X">>]
    ELSE [err |-> "none", text |-> m.g0]

\* handle_role(match)
handle_role(m) ==
    IF m.g1 \in DOMAIN roles
    THEN [err |-> "none", text |-> TripleText(rgb(roles[m.g1]))]
    ELSE [err |-> "none", text |-> m.g0]

\* the replacement function of a pattern applied to a match
Replacement(pat, m) ==
    IF pat.kind = "func" THEN lam(pat.attr, m)
    ELSE IF pat.kind = "prop" THEN prop(pat.attr, m)
    ELSE IF pat.kind = "role" THEN handle_role(m)
    ELSE handle_key(m)

Search_Last(pat, t, i) ==
    LET at == {j \in i..Len(t) : MatchAt(pat, t, j).ok}
    IN  IF at = {} THEN 0 ELSE Max(at)

\* pattern.search(t, i - 1): the index of the leftmost match at or after i, or 0
Search(pat, t, i) ==
    LET at == {j \in i..Len(t) : MatchAt(pat, t, j).ok}
    IN  IF at = {} THEN 0 ELSE Min(at)

\* pattern.sub(f, t) from index i on: leftmost non-overlapping matches, each
\* replaced by f(match); an exception in f ends the sub
RECURSIVE SubFrom(_, _, _)
SubFrom(pat, t, i) ==
    LET Join(j, rp, r) == [err |-> r.err, text |-> Slice(t, i, j) \o rp.text \o r.text]
        WithRep(j, m, rp) == IF rp.err # "none" THEN [err |-> rp.err, text |-> <<>>]
                             ELSE Join(j, rp, SubFrom(pat, t, m.end))
        WithMatch(j, m) == WithRep(j, m, Replacement(pat, m))
        At(j) == IF j = 0 THEN [err |-> "none", text |-> Slice(t, i, Len(t) + 1)]
                 ELSE WithMatch(j, MatchAt(pat, t, j))
    IN  At(Search(pat, t, i))

\* pattern.sub(f, template)
PatternSub(pat, t) == SubFrom(pat, t, 1)

\* re.sub(k.upper() + ".REPLACE", v, t) from index i on; the "." of the pattern
\* is the regex wildcard (any character but a newline).  Names hold no regex
\* metacharacter and values no backslash.
RECURSIVE VarSubFrom(_, _, _, _)
VarSubFrom(k, v, t, i) ==
    LET K == Upper(k)
        at == {j \in i..Len(t) : /\ HasAt(t, j, K)
                                 /\ j + Len(K) <= Len(t) /\ t[j + Len(K)] # "\n"
                                 /\ HasAt(t, j + Len(K) + 1, <<"R", "E", "P", "L", "A", "C", "E">>)}
    IN  IF at = {} THEN Slice(t, i, Len(t) + 1)
        ELSE Slice(t, i, Min(at)) \o v \o VarSubFrom(k, v, t, Min(at) + Len(K) + 8)

VarSub(k, v, t) == VarSubFrom(k, v, t, 1)

(***************************************************************************)
(* Inputs: templates are concatenations of fragments of the DSL            *)
(***************************************************************************)
\* the largest number of fragments in a template
MaxFrags == 3

\* the largest number of variable references in a template of SpecVars
MaxRefs == 2

\* the largest number of entries of a variable map of SpecVars
MaxVars == 2

RECURSIVE Concat(_, _)
Concat(frags, ix) == IF ix = <<>> THEN <<>> ELSE frags[Head(ix)] \o Concat(frags, Tail(ix))

\* every concatenation of at most n of the fragments
TemplatesOf(frags, n) ==
    {Concat(frags, ix) : ix \in UNION {[1..k -> DOMAIN frags] : k \in 0..n}}

\* references that hit and that miss, a literal triple, the property, calls
Fragments == <<
    <<"K", "E", "Y", "(", "0", ")">>,
    <<"K", "E", "Y", "(", "7", ")">>,
    <<"R", "O", "L", "E", "(", "a", ")">>,
    <<"R", "O", "L", "E", "(", "z", "z", ")">>,
    <<"2", "5", "5", ",", " ", "0", ",", " ", "0">>,
    <<".", "H", "E", "X">>,
    <<".", "T", "I", "N", "T", "(", "0", ".", "2", ")">>,
    <<".", "C", "O", "M", "P", "L", "E", "M", "E", "N", "T", "A", "R", "Y", "(", ")">>>>

\* calls with a well-formed, a malformed, a missing and a float index argument
ArgFragments == <<
    <<"2", "5", "5", ",", " ", "0", ",", " ", "0">>,
    <<"K", "E", "Y", "(", "0", ")">>,
    <<".", "T", "I", "N", "T", "(", "1", ".", "0", ")">>,
    <<".", "T", "I", "N", "T", "(", "x", ")">>,
    <<".", "S", "H", "A", "D", "E", "(", ")">>,
    <<".", "T", "R", "I", "A", "D", "I", "C", "(", "1", ")">>,
    <<".", "H", "E", "X">>>>

\* variable references: upper case, lower case, another character for the dot
VarFragments == <<
    <<"A", ".", "R", "E", "P", "L", "A", "C", "E">>,
    <<"a", ".", "R", "E", "P", "L", "A", "C", "E">>,
    <<"A", "x", "R", "E", "P", "L", "A", "C", "E">>,
    <<"B", ".", "R", "E", "P", "L", "A", "C", "E">>,
    <<"K", "E", "Y", "(", "0", ")">>>>

\* Palette inputs: Colors (hex strings, KEY(0..)) and Roles (name -> hex string)
Palettes == {
    [Colors |-> <<<<"#", "f", "f", "0", "0", "0", "0">>>>, Roles |-> (<<"a">> :> <<"#", "0", "0", "f", "f", "0", "0">>)],
    [Colors |-> <<<<"#", "0", "0", "0", "0", "0", "0">>>>, Roles |-> <<>>]}

\* the variable map of main's parse of "a=x;"
VarMaps == {<<<<<<"a">>, <<"x">>>>>>}

VarNames == {<<"A">>, <<"B">>, <<"a">>}

VarValues == {<<"x">>, <<"B", ".", "R", "E", "P", "L", "A", "C", "E">>}

\* every variable map of at most n entries with distinct names, in every order
VarMapsOf(n) ==
    {vm \in UNION {[1..k -> VarNames \X VarValues] : k \in 0..n} :
        \A i, j \in DOMAIN vm : i # j => vm[i][1] # vm[j][1]}

(***************************************************************************)
(* Theme.__init__ and the steps of Theme.process_template                  *)
(***************************************************************************)
\* Theme(colors, color_roles, variables) followed by the call
\* process_template(tpl), up to line 64
InitWith(tpls, pals, vmaps) ==
    \E tpl \in tpls, pal \in pals, vm \in vmaps :
        /\ keys = [i \in 1..Len(pal.Colors) |-> from_hex(pal.Colors[i])]
        /\ roles = [r \in DOMAIN pal.Roles |-> from_hex(pal.Roles[r])]
        /\ variables = vm
        /\ template = tpl
        /\ input = tpl
        /\ loop0 = <<>>
        /\ change = FALSE
        /\ pc = "vars"
        /\ vidx = 1
        /\ pidx = 1
        /\ outcome = "running"
        /\ passes = <<>>
        /\ docs = <<>> /\ fidx = 0 /\ written = <<>> /\ main = "call" /\ other = NoFrame
        /\ col = <<>> /\ made = <<>> /\ ops = <<>>

Init == InitWith(TemplatesOf(Fragments, MaxFrags), Palettes, VarMaps)

InitArgs == InitWith(TemplatesOf(ArgFragments, MaxFrags), Palettes, VarMaps)

InitVars == InitWith(TemplatesOf(VarFragments, MaxRefs), Palettes, VarMapsOf(MaxVars))

\* lines 64-65, one iteration: template = re.sub(k.upper() + ".REPLACE", v, template)
SubstituteVariable ==
    /\ pc = "vars"
    /\ vidx <= Len(variables)
    /\ template' = VarSub(variables[vidx][1], variables[vidx][2], template)
    /\ vidx' = vidx + 1
    /\ UNCHANGED <<keys, roles, variables, change, pc, pidx, outcome, input, loop0, passes>>
    /\ UNCHANGED <<driver, colour>>

\* line 66, after the last variable: change = True
EnterLoop ==
    /\ pc = "vars"
    /\ vidx > Len(variables)
    /\ change' = TRUE
    /\ loop0' = template
    /\ pc' = "while"
    /\ UNCHANGED <<keys, roles, variables, template, vidx, pidx, outcome, input, passes>>
    /\ UNCHANGED <<driver, colour>>

WhileTest_Once == change /\ passes = <<>>

\* line 67: while change
WhileTest == change

\* lines 67-68, the test holds: change = False and the for loop starts
StartPass ==
    /\ pc = "while"
    /\ WhileTest
    /\ change' = FALSE
    /\ pidx' = 1
    /\ passes' = Append(passes, <<>>)
    /\ pc' = "for"
    /\ UNCHANGED <<keys, roles, variables, template, vidx, outcome, input, loop0>>
    /\ UNCHANGED <<driver, colour>>

Changed_Longer(new, old) == Len(new) > Len(old)

\* line 73: if new_template != template
Changed(new, old) == new # old

\* lines 70-78 for the result r of pattern.sub(f, template)
Assign(r) ==
    IF r.err \notin {"none", "AttributeError"}
    THEN /\ outcome' = r.err
         /\ pc' = "done"
         /\ UNCHANGED <<template, change, pidx, passes>>
    ELSE /\ IF r.err = "none" /\ Changed(r.text, template)
            THEN template' = r.text /\ change' = TRUE
            ELSE UNCHANGED <<template, change>>
         /\ passes' = IF r.err = "none" /\ r.text # template
                      THEN [passes EXCEPT ![Len(passes)] = Append(@, pidx)]
                      ELSE passes
         /\ pidx' = IF pidx = Len(match_to_func) THEN pidx ELSE pidx + 1
         /\ pc' = IF pidx = Len(match_to_func) THEN "while" ELSE "for"
         /\ UNCHANGED outcome

\* lines 69-78, one iteration: new_template = pattern.sub(f, template); an
\* AttributeError is swallowed, any other exception leaves process_template
ApplyPattern ==
    /\ pc = "for"
    /\ Assign(PatternSub(match_to_func[pidx], template))
    /\ UNCHANGED <<keys, roles, variables, vidx, input, loop0>>
    /\ UNCHANGED <<driver, colour>>

\* line 67, the test fails, and line 79: return template
Return ==
    /\ pc = "while"
    /\ ~WhileTest
    /\ outcome' = "returned"
    /\ pc' = "done"
    /\ UNCHANGED <<keys, roles, variables, template, change, vidx, pidx, input, loop0, passes>>
    /\ UNCHANGED <<driver, colour>>

Next == SubstituteVariable \/ EnterLoop \/ StartPass \/ ApplyPattern \/ Return

\* renders of DSL templates
Spec == Init /\ [][Next]_vars

\* renders of templates whose calls have malformed arguments
SpecArgs == InitArgs /\ [][Next]_vars

\* renders of templates with variable references under every small variable map
SpecVars == InitVars /\ [][Next]_vars

\* calls of the harmony functions with an index, and of LERP
CallFragments == <<
    <<"2", "5", "5", ",", " ", "0", ",", " ", "0">>,
    <<".", "L", "E", "R", "P", "(", "0", ".", "5", ",", " ", "1", ",", " ", "1", ",", " ", "1", ")">>,
    <<".", "T", "R", "I", "A", "D", "I", "C", "(", "1", ")">>,
    <<".", "A", "N", "A", "L", "O", "G", "O", "U", "S", "(", "0", ")">>,
    <<".", "T", "E", "T", "R", "A", "D", "I", "C", "(", "2", ")">>,
    <<".", "T", "R", "I", "A", "D", "I", "C", "(", ")">>>>

InitCalls == InitWith(TemplatesOf(CallFragments, MaxFrags), Palettes, VarMaps)

\* renders of templates that call LERP and the harmony functions
SpecCalls == InitCalls /\ [][Next]_vars

\* references, a literal triple, and calls early (SHADE, COMPLEMENTARY) and
\* late (HUE) in the registry, to be chained
ChainFragments == <<
    <<"K", "E", "Y", "(", "0", ")">>,
    <<"R", "O", "L", "E", "(", "a", ")">>,
    <<"2", "5", "5", ",", " ", "0", ",", " ", "0">>,
    <<".", "H", "E", "X">>,
    <<".", "S", "H", "A", "D", "E", "(", "0", ".", "5", ")">>,
    <<".", "H", "U", "E", "(", "0", ".", "5", ")">>,
    <<".", "C", "O", "M", "P", "L", "E", "M", "E", "N", "T", "A", "R", "Y", "(", ")">>>>

InitChain == InitWith(TemplatesOf(ChainFragments, MaxFrags), Palettes, VarMaps)

\* renders of templates that chain calls
SpecChain == InitChain /\ [][Next]_vars

(***************************************************************************)
(* Theme.process_template as a function of its argument                    *)
(***************************************************************************)
\* lines 69-78, the for loop over t from pattern k on: the text it leaves, whether
\* a sub changed the text, and the exception that left process_template
RECURSIVE for_loop(_, _, _)
for_loop(t, k, ch) ==
    LET With(r) ==
            IF r.err \notin {"none", "AttributeError"}
            THEN [err |-> r.err, text |-> t, change |-> ch]
            ELSE IF r.err = "none" /\ Changed(r.text, t) THEN for_loop(r.text, k + 1, TRUE)
            ELSE for_loop(t, k + 1, ch)
    IN  IF k > Len(match_to_func) THEN [err |-> "none", text |-> t, change |-> ch]
        ELSE With(PatternSub(match_to_func[k], t))

\* lines 66-79: passes until one changes nothing
RECURSIVE while_loop(_)
while_loop(t) ==
    LET After(r) == IF r.err # "none" \/ ~r.change THEN r ELSE while_loop(r.text)
    IN  After(for_loop(t, 1, FALSE))

\* lines 64-65 from entry i of self.variables on
RECURSIVE variables_loop(_, _)
variables_loop(t, i) ==
    IF i > Len(variables) THEN t
    ELSE variables_loop(VarSub(variables[i][1], variables[i][2], t), i + 1)

\* process_template(t) on this Theme: [err |-> "none", text |-> the returned text]
\* or [err |-> the exception raised]
process_template(t) == while_loop(variables_loop(t, 1))

(***************************************************************************)
(* render.py: main on a directory, and process_file                        *)
(***************************************************************************)
\* the largest number of files in the input directory
MaxDocs == 2

\* the texts of the files: templates that render, one whose call has a
\* malformed argument, one with a reference that misses
BatchDocs == <<
    <<"K", "E", "Y", "(", "0", ")", ".", "H", "E", "X">>,
    <<"2", "5", "5", ",", " ", "0", ",", " ", "0", ".", "T", "I", "N", "T", "(", "x", ")">>,
    <<"R", "O", "L", "E", "(", "a", ")", ".", "T", "I", "N", "T", "(", "0", ".", "2", ")">>,
    <<"K", "E", "Y", "(", "7", ")">>>>

\* every directory of 1..n regular files, in every order os.listdir can give
DirectoriesOf(n) == UNION {[1..k -> Range(BatchDocs)] : k \in 1..n}

\* Theme(colors_data["Colors"], colors_data["Roles"], variables)
Theme(pal, vm) ==
    /\ keys = [i \in 1..Len(pal.Colors) |-> from_hex(pal.Colors[i])]
    /\ roles = [r \in DOMAIN pal.Roles |-> from_hex(pal.Roles[r])]
    /\ variables = vm

\* main up to line 43, with os.path.isdir(input_path)
InitBatch ==
    \E dir \in DirectoriesOf(MaxDocs), pal \in Palettes, vm \in VarMaps :
        /\ Theme(pal, vm)
        /\ docs = dir /\ fidx = 1 /\ written = <<>> /\ main = "loop" /\ other = NoFrame
        /\ template = <<>> /\ input = <<>> /\ loop0 = <<>> /\ change = FALSE
        /\ pc = "none" /\ vidx = 0 /\ pidx = 0 /\ outcome = "none" /\ passes = <<>>
        /\ col = <<>> /\ made = <<>> /\ ops = <<>>

\* lines 43-47 and 13-15: the next file is read and process_template is called
process_file ==
    /\ main = "loop"
    /\ fidx <= Len(docs)
    /\ main' = "process_file"
    /\ template' = docs[fidx] /\ input' = docs[fidx] /\ loop0' = <<>> /\ change' = FALSE
    /\ pc' = "vars" /\ vidx' = 1 /\ pidx' = 1 /\ outcome' = "running" /\ passes' = <<>>
    /\ UNCHANGED <<keys, roles, variables, docs, fidx, written, other, colour>>

\* lines 17-18: process_template returned; the output file is written and the
\* for loop goes on
WriteOutput ==
    /\ main = "process_file"
    /\ pc = "done" /\ outcome = "returned"
    /\ written' = written @@ (fidx :> template)
    /\ fidx' = fidx + 1
    /\ main' = "loop"
    /\ UNCHANGED <<keys, roles, variables, frame, docs, other, colour>>

\* lines 15 and 47: process_template raised; neither process_file nor main has a
\* try, so the exception leaves main
Propagate ==
    /\ main = "process_file"
    /\ pc = "done" /\ outcome # "returned"
    /\ main' = "raised"
    /\ UNCHANGED <<keys, roles, variables, frame, docs, fidx, written, other, colour>>

\* line 43, the directory is exhausted: main returns
MainReturn ==
    /\ main = "loop"
    /\ fidx > Len(docs)
    /\ main' = "exit"
    /\ UNCHANGED <<keys, roles, variables, frame, docs, fidx, written, other, colour>>

NextBatch ==
    \/ process_file \/ SubstituteVariable \/ EnterLoop \/ StartPass \/ ApplyPattern
    \/ Return \/ WriteOutput \/ Propagate \/ MainReturn

\* render.py on a directory of templates
SpecBatch == InitBatch /\ [][NextBatch]_vars

(***************************************************************************)
(* Two calls of process_template on one Theme                              *)
(***************************************************************************)
\* the documents rendered against the shared Theme
SharedDocs == {
    <<"K", "E", "Y", "(", "0", ")", ".", "H", "E", "X">>,
    <<"R", "O", "L", "E", "(", "a", ")", ".", "T", "I", "N", "T", "(", "0", ".", "2", ")">>,
    <<"A", ".", "R", "E", "P", "L", "A", "C", "E", "K", "E", "Y", "(", "7", ")">>,
    <<"2", "5", "5", ",", " ", "0", ",", " ", "0", ".", "T", "I", "N", "T", "(", "x", ")">>}

\* the locals of a call process_template(tpl) at line 64
Called(tpl) == [template |-> tpl, change |-> FALSE, pc |-> "vars", vidx |-> 1, pidx |-> 1,
                outcome |-> "running", input |-> tpl, loop0 |-> <<>>, passes |-> <<>>]

\* one Theme, and two calls process_template(d1) and process_template(d2) on it
InitShared ==
    \E d1 \in SharedDocs, d2 \in SharedDocs, pal \in Palettes, vm \in VarMaps :
        /\ d1 # d2
        /\ Theme(pal, vm)
        /\ template = d1 /\ input = d1 /\ loop0 = <<>> /\ change = FALSE
        /\ pc = "vars" /\ vidx = 1 /\ pidx = 1 /\ outcome = "running" /\ passes = <<>>
        /\ other = Called(d2)
        /\ docs = <<>> /\ fidx = 0 /\ written = <<>> /\ main = "call"
        /\ col = <<>> /\ made = <<>> /\ ops = <<>>

Switch_SharedTemplate ==
    /\ other.pc # "none"
    /\ other' = [template |-> other.template, change |-> change, pc |-> pc, vidx |-> vidx,
                 pidx |-> pidx, outcome |-> outcome, input |-> input, loop0 |-> loop0,
                 passes |-> passes]
    /\ template' = template /\ change' = other.change /\ pc' = other.pc
    /\ vidx' = other.vidx /\ pidx' = other.pidx /\ outcome' = other.outcome
    /\ input' = other.input /\ loop0' = other.loop0 /\ passes' = other.passes
    /\ UNCHANGED <<keys, roles, variables, docs, fidx, written, main, colour>>

\* control passes from one call to the other: template, change and the loop
\* positions are locals of the call (lines 31, 64-69), each call has its own
Switch ==
    /\ other.pc # "none"
    /\ other' = [template |-> template, change |-> change, pc |-> pc, vidx |-> vidx,
                 pidx |-> pidx, outcome |-> outcome, input |-> input, loop0 |-> loop0,
                 passes |-> passes]
    /\ template' = other.template /\ change' = other.change /\ pc' = other.pc
    /\ vidx' = other.vidx /\ pidx' = other.pidx /\ outcome' = other.outcome
    /\ input' = other.input /\ loop0' = other.loop0 /\ passes' = other.passes
    /\ UNCHANGED <<keys, roles, variables, docs, fidx, written, main, colour>>

NextShared ==
    \/ SubstituteVariable \/ EnterLoop \/ StartPass \/ ApplyPattern \/ Return \/ Switch

\* two renders of different documents, interleaved in every way, on one Theme
SpecShared == InitShared /\ [][NextShared]_vars

(***************************************************************************)
(* colors/Color.py: the operations applied to a Color object               *)
(***************************************************************************)
\* the largest number of operations applied in a row
MaxOps == 2

\* hues, and saturations and values, a Color is built from
Hues == {RInt(0), Rat(1, 3), Rat(1, 2), Rat(3, 4)}

Levels == {RInt(0), Rat(1, 2), RInt(1)}

\* arguments of tint, set_sat and set_val: in [0, 1], and one above 1
Amounts == {RInt(0), Rat(1, 2), RInt(1), RInt(2)}

\* arguments of hue_shift
Shifts == {Rat(1, 3), Rat(-1, 12)}

\* Color(h, s, v), line 16-17
InitColor ==
    \E h \in Hues, s \in Levels, v \in Levels :
        /\ made = <<h, s, v>>
        /\ col = Color(h, s, v)
        /\ ops = <<>>
        /\ keys = <<>> /\ roles = <<>> /\ variables = <<>>
        /\ template = <<>> /\ input = <<>> /\ loop0 = <<>> /\ change = FALSE
        /\ pc = "none" /\ vidx = 0 /\ pidx = 0 /\ outcome = "none" /\ passes = <<>>
        /\ docs = <<>> /\ fidx = 0 /\ written = <<>> /\ main = "none" /\ other = NoFrame

\* the record of an operation applied to col
Applied(name, arg) == [name |-> name, arg |-> arg, from |-> col]

\* c.hue_shift(d)
HueShift ==
    /\ Len(ops) < MaxOps
    /\ \E d \in Shifts : col' = hue_shift(col, d) /\ ops' = Append(ops, Applied("hue_shift", d))
    /\ UNCHANGED <<made, keys, roles, variables, frame, driver>>

\* c.complementary()
Complementary ==
    /\ Len(ops) < MaxOps
    /\ col' = complementary(col)
    /\ ops' = Append(ops, Applied("complementary", RInt(0)))
    /\ UNCHANGED <<made, keys, roles, variables, frame, driver>>

\* c.tint(t)
Tint ==
    /\ Len(ops) < MaxOps
    /\ \E t \in Amounts : col' = tint(col, t) /\ ops' = Append(ops, Applied("tint", t))
    /\ UNCHANGED <<made, keys, roles, variables, frame, driver>>

\* c.shade(t)
Shade ==
    /\ Len(ops) < MaxOps
    /\ \E t \in Levels : col' = shade(col, t) /\ ops' = Append(ops, Applied("shade", t))
    /\ UNCHANGED <<made, keys, roles, variables, frame, driver>>

\* c.set_hue(h)
SetHue ==
    /\ Len(ops) < MaxOps
    /\ \E h \in Hues : col' = set_hue(col, h) /\ ops' = Append(ops, Applied("set_hue", h))
    /\ UNCHANGED <<made, keys, roles, variables, frame, driver>>

\* c.set_sat(s)
SetSat ==
    /\ Len(ops) < MaxOps
    /\ \E x \in Amounts : col' = set_sat(col, x) /\ ops' = Append(ops, Applied("set_sat", x))
    /\ UNCHANGED <<made, keys, roles, variables, frame, driver>>

\* c.set_val(v)
SetVal ==
    /\ Len(ops) < MaxOps
    /\ \E x \in Amounts : col' = set_val(col, x) /\ ops' = Append(ops, Applied("set_val", x))
    /\ UNCHANGED <<made, keys, roles, variables, frame, driver>>

NextColor == HueShift \/ Complementary \/ Tint \/ Shade \/ SetHue \/ SetSat \/ SetVal

\* a Color built from h, s, v and the operations applied to it and its results
SpecColor == InitColor /\ [][NextColor]_vars

(***************************************************************************)
(* Properties                                                              *)
(***************************************************************************)
\* process_template returned its text
Returned == pc = "done" /\ outcome = "returned"

\* the index in match_to_func of the pattern of a kind and name
PatternIndex(kind, name) ==
    CHOOSE i \in DOMAIN match_to_func :
        match_to_func[i].kind = kind /\ match_to_func[i].name = name

KEY == <<"K", "E", "Y">>

ROLE == <<"R", "O", "L", "E">>

\* the matches of KEY(n) and ROLE(name) in t that miss the palette
KeyMisses(t) ==
    {j \in 1..Len(t) : /\ CallMatch(KEY, Digit, t, j).ok
                       /\ DigitsToNat(CallMatch(KEY, Digit, t, j).g1) + 1 \notin DOMAIN keys}

RoleMisses(t) ==
    {j \in 1..Len(t) : /\ CallMatch(ROLE, WordChar, t, j).ok
                       /\ CallMatch(ROLE, WordChar, t, j).g1 \notin DOMAIN roles}

MissTexts(t) == {CallMatch(KEY, Digit, t, j).g0 : j \in KeyMisses(t)}
                \cup {CallMatch(ROLE, WordChar, t, j).g0 : j \in RoleMisses(t)}

\* some pattern's sub rewrites t (or raises)
Resolvable(t) ==
    \E k \in DOMAIN match_to_func :
        PatternSub(match_to_func[k], t) # [err |-> "none", text |-> t]

\* one full pass of lines 69-78 over t, from pattern k on
RECURSIVE PassFrom(_, _)
PassFrom(t, k) ==
    LET Keep(r) == IF r.err = "none" THEN r.text ELSE t
    IN  IF k > Len(match_to_func) THEN t
        ELSE PassFrom(Keep(PatternSub(match_to_func[k], t)), k + 1)

\* the number of passes that made a substitution
ChangingPasses == Cardinality({k \in DOMAIN passes : passes[k] # <<>>})

\* C1: a KEY(n) or ROLE(name) that misses the palette raises nothing, is still
\* literally in the returned text (as many misses as the loop started with), and
\* a text whose only constructs are misses is returned unchanged after one pass.
C1_MissLeftInPlace ==
    /\ (KeyMisses(loop0) \cup RoleMisses(loop0)) # {} => outcome \in {"running", "returned"}
    /\ Returned =>
         /\ \A x \in MissTexts(loop0) : Contains(template, x)
         /\ Cardinality(KeyMisses(template)) = Cardinality(KeyMisses(loop0))
         /\ Cardinality(RoleMisses(template)) = Cardinality(RoleMisses(loop0))
    /\ (Returned /\ MissTexts(loop0) # {} /\ ~Resolvable(loop0)) =>
         Len(passes) = 1 /\ template = loop0

C1_Witness ==
    /\ Returned
    /\ KeyMisses(loop0) # {} /\ RoleMisses(loop0) # {}
    /\ Len(passes) = 1
    /\ template = input

\* the cap the original statement of C3 is tried with
IterationCap == 2

C4_FixedPoint == Returned => (PassFrom(template, 1) = template /\ ~Resolvable(template))

C4_Witness == Returned /\ Len(passes) >= 3 /\ template # input

T_KEY0_HEX == <<"K", "E", "Y", "(", "0", ")", ".", "H", "E", "X">>

\* the six lowercase hex digits of a colour
HexDigits(c) == Hex2(rgb(c)[1]) \o Hex2(rgb(c)[2]) \o Hex2(rgb(c)[3])

\* C7 as stated: KEY(0).HEX renders to the six hex digits of the colour at
\* position 0, without a leading "#".
C7_HexWithoutHash ==
    (Returned /\ input = T_KEY0_HEX /\ Len(keys) >= 1) => template = HexDigits(keys[1])

\* C7, amended: KEY(0).HEX renders to "#" followed by the six lowercase hex
\* digits of the colour at position 0; with Colors = ["#ff0000"], to "#ff0000".
C7_HexWithHash ==
    (Returned /\ input = T_KEY0_HEX /\ Len(keys) >= 1) =>
        /\ template = <<"#">> \o HexDigits(keys[1])
        /\ keys = <<from_hex(<<"#", "f", "f", "0", "0", "0", "0">>)>> => template = <<"#", "f", "f", "0", "0", "0", "0">>

C7_Witness ==
    /\ Returned /\ input = T_KEY0_HEX
    /\ keys = <<from_hex(<<"#", "f", "f", "0", "0", "0", "0">>)>>
    /\ template = <<"#", "f", "f", "0", "0", "0", "0">>

T_RED == <<"2", "5", "5", ",", " ", "0", ",", " ", "0">>

T_RED_COMPLEMENTARY == <<"2", "5", "5", ",", " ", "0", ",", " ", "0", ".", "C", "O", "M", "P", "L", "E", "M", "E", "N", "T", "A", "R", "Y", "(", ")">>

T_RED_TINT == <<"2", "5", "5", ",", " ", "0", ",", " ", "0", ".", "T", "I", "N", "T", "(", "0", ".", "2", ")">>

\* t is three runs of digits joined by a comma and one space, nothing else
IsTriple(t) ==
    \E a, b \in 1..Len(t) :
        /\ a < b
        /\ t[a] = "," /\ t[a + 1] = " " /\ t[b] = "," /\ t[b + 1] = " "
        /\ a > 1 /\ b > a + 2 /\ b + 1 < Len(t)
        /\ \A i \in 1..Len(t) : i \notin {a, a + 1, b, b + 1} => t[i] \in Digit

\* C8: a function call on a literal triple is replaced by three integers joined
\* by comma and space, without brackets; 255, 0, 0.COMPLEMENTARY() renders to
\* 0, 255, 255.
C8_FunctionCallTriple ==
    /\ (Returned /\ input \in {T_RED_COMPLEMENTARY, T_RED_TINT}) => IsTriple(template)
    /\ (Returned /\ input = T_RED_COMPLEMENTARY) => template = <<"0", ",", " ", "2", "5", "5", ",", " ", "2", "5", "5">>

C8_Witness ==
    Returned /\ input = T_RED_COMPLEMENTARY /\ template = <<"0", ",", " ", "2", "5", "5", ",", " ", "2", "5", "5">>

T_KEY0_TINT_HEX == <<"K", "E", "Y", "(", "0", ")", ".", "T", "I", "N", "T", "(", "0", ".", "2", ")", ".", "H", "E", "X">>

TINT == <<"T", "I", "N", "T">>

HEX == <<"H", "E", "X">>

\* C10 as stated: four passes, resolving KEY, then TINT, then HEX, then nothing.
C10_FourPasses ==
    (Returned /\ input = T_KEY0_TINT_HEX /\ Len(keys) >= 1) =>
        passes = <<<<PatternIndex("key", KEY)>>, <<PatternIndex("func", TINT)>>,
                   <<PatternIndex("prop", HEX)>>, <<>>>>

\* C10, amended: three passes: pass 1 only resolves KEY(0); pass 2 rewrites the
\* TINT call and then, the property pattern coming after the function patterns
\* in the same pass, the HEX access; pass 3 makes no substitution and ends the loop.
C10_ThreePasses ==
    (Returned /\ input = T_KEY0_TINT_HEX /\ Len(keys) >= 1) =>
        passes = <<<<PatternIndex("key", KEY)>>,
                   <<PatternIndex("func", TINT), PatternIndex("prop", HEX)>>, <<>>>>

C10_Witness ==
    /\ Returned /\ input = T_KEY0_TINT_HEX
    /\ Len(passes) = 3
    /\ template = <<"#">> \o HexDigits(tint(keys[1], Rat(1, 5)))

T_TINT_X == <<".", "T", "I", "N", "T", "(", "x", ")">>

T_SHADE_NOARG == <<".", "S", "H", "A", "D", "E", "(", ")">>

T_TRIADIC_1 == <<".", "T", "R", "I", "A", "D", "I", "C", "(", "1", ")">>

T_KEY0 == <<"K", "E", "Y", "(", "0", ")">>

\* C2: a call whose argument does not parse as a number (TINT(x)) or whose
\* argument is missing (SHADE()) is recovered from: process_template returns,
\* the malformed call is still in the text, and the resolvable KEY(0) of the
\* same document is rewritten.
C2_RecoversLocally ==
    (/\ pc = "done"
     /\ Contains(input, T_TINT_X) \/ Contains(input, T_SHADE_NOARG)
     /\ ~Contains(input, T_TRIADIC_1)) =>
        /\ outcome = "returned"
        /\ Contains(input, T_TINT_X) => Contains(template, T_TINT_X)
        /\ Contains(input, T_SHADE_NOARG) => Contains(template, T_SHADE_NOARG)
        /\ Len(keys) >= 1 => ~Contains(template, T_KEY0)

T_KEY0_TINT1_HEX == <<"K", "E", "Y", "(", "0", ")", ".", "T", "I", "N", "T", "(", "1", ".", "0", ")", ".", "H", "E", "X">>

\* the value of a channel written as two hex digits
HexPair(t, i) == 16 * HexVal(t[i]) + HexVal(t[i + 1])

\* t is a hex colour, with or without "#", whose channels are ff within 1
NearWhite(t) ==
    LET x == IF t # <<>> /\ t[1] = "#" THEN Tail(t) ELSE t
    IN  /\ Len(x) = 6
        /\ \A i \in 1..6 : x[i] \in Range(HexChars)
        /\ \A k \in 1..3 : HexPair(x, 2 * k - 1) >= 254

\* C9: with Colors = ["#000000"], KEY(0).TINT(1.0).HEX renders to a hex value
\* whose every channel is ff within 1.
C9_TintOneIsWhite ==
    (Returned /\ input = T_KEY0_TINT1_HEX /\ keys = <<from_hex(<<"#", "0", "0", "0", "0", "0", "0">>)>>) =>
        NearWhite(template)

REPLACE == <<".", "R", "E", "P", "L", "A", "C", "E">>

\* the names of the variable map differ also after upper-casing
DistinctPatterns ==
    \A i, j \in DOMAIN variables :
        i # j => Upper(variables[i][1]) # Upper(variables[j][1])

\* C5: the pre-pass is non-recursive: a template that is exactly the reference
\* NAME.REPLACE of one variable enters the rewrite loop as that variable's
\* value, whatever the other entries of the map and their order.
C5_NonRecursive ==
    (pc # "vars" /\ DistinctPatterns) =>
        \A i \in DOMAIN variables :
            input = Upper(variables[i][1]) \o REPLACE => loop0 = variables[i][2]

\* t is a literal reference name'.REPLACE with name' equal to name up to case
IsRef(t, name) ==
    /\ Len(t) = Len(name) + Len(REPLACE)
    /\ Upper(Slice(t, 1, Len(name) + 1)) = Upper(name)
    /\ HasAt(t, Len(name) + 1, REPLACE)

\* C6: with one variable, a reference to it in any letter case is replaced by
\* its value, and a text without the literal ".REPLACE" is left as it is.
C6_CaseInsensitiveLiteral ==
    (pc # "vars" /\ Len(variables) = 1) =>
        /\ IsRef(input, variables[1][1]) => loop0 = variables[1][2]
        /\ ~Contains(input, REPLACE) => loop0 = input

\* C11: when main has ended, every file of the directory whose render does not
\* fail has its output written, whatever happened to the other files.
C11_BatchIsolated ==
    main \in {"exit", "raised"} =>
        \A i \in DOMAIN docs :
            process_template(docs[i]).err = "none" => i \in DOMAIN written

T_RED_LERP == <<"2", "5", "5", ",", " ", "0", ",", " ", "0", ".", "L", "E", "R", "P", "(", "0", ".", "5", ",", " ", "1", ",", " ", "1", ",", " ", "1", ")">>

\* the colour of the literal triple 255, 0, 0
Red == from_rgb(RInt(255), RInt(0), RInt(0))

\* C12: every name of the function registry is bound to an operation that Color
\* defines, and 255, 0, 0.LERP(0.5, 1, 1, 1) is rewritten to the triple of red
\* interpolated toward Color(0.5, 1, 1) at position 1.
C12_RegistryBound ==
    (pc = "done" /\ input = T_RED_LERP) =>
        /\ \A i \in DOMAIN FUNCTIONS : FUNCTIONS[i].attr \in ColorAttributes
        /\ outcome = "returned"
        /\ template = TripleText(rgb(lerp_target(Red, Color(Rat(1, 2), RInt(1), RInt(1)), RInt(1))))

T_RED_TRIADIC_1 == <<"2", "5", "5", ",", " ", "0", ",", " ", "0", ".", "T", "R", "I", "A", "D", "I", "C", "(", "1", ")">>

T_RED_ANALOGOUS_0 == <<"2", "5", "5", ",", " ", "0", ",", " ", "0", ".", "A", "N", "A", "L", "O", "G", "O", "U", "S", "(", "0", ")">>

T_RED_TETRADIC_2 == <<"2", "5", "5", ",", " ", "0", ",", " ", "0", ".", "T", "E", "T", "R", "A", "D", "I", "C", "(", "2", ")">>

\* C17: TRIADIC(1), ANALOGOUS(0) and TETRADIC(2) on a literal triple are
\* rewritten, without failing, to the triple of the colour hue-shifted by the
\* offset the index selects: 2/3, -1/12 and 3/4.
C17_HarmonyByIndex ==
    pc = "done" =>
        /\ input = T_RED_TRIADIC_1 =>
              outcome = "returned" /\ template = TripleText(rgb(hue_shift(Red, Rat(2, 3))))
        /\ input = T_RED_ANALOGOUS_0 =>
              outcome = "returned" /\ template = TripleText(rgb(hue_shift(Red, Rat(-1, 12))))
        /\ input = T_RED_TETRADIC_2 =>
              outcome = "returned" /\ template = TripleText(rgb(hue_shift(Red, Rat(3, 4))))

\* a finished call with outcome out and text txt did what process_template does
\* for its argument on a Theme of its own
AsAlone(r, out, txt) ==
    IF r.err = "none" THEN out = "returned" /\ txt = r.text ELSE out = r.err

\* C13: no step of a render changes the Theme's keys, roles or variables, and
\* each of the two renders that share the Theme, however their steps interleave,
\* ends with the outcome and text of rendering its document alone.
C13_ThemeReadOnly ==
    /\ [][keys' = keys /\ roles' = roles /\ variables' = variables]_vars
    /\ []((pc = "done" => AsAlone(process_template(input), outcome, template))
          /\ (other.pc = "done" =>
                AsAlone(process_template(other.input), other.outcome, other.template)))

C13_Witness ==
    /\ Returned /\ template # input
    /\ other.pc = "for" /\ Len(other.passes) >= 2 /\ other.template # other.input

\* a number in [0, 1]
InUnit(x) == RLe(RInt(0), x) /\ RLe(x, RInt(1))

\* saturation and value in [0, 1]
ValidHSV(x) == InUnit(x[2]) /\ InUnit(x[3])

\* C14: every Color that the constructor and the operations produce has its
\* saturation and value in [0, 1] (a construction from values outside fails).
C14_SatValInRange == ValidHSV(hsv(col))

\* the same saturation and value, and the same hue modulo one turn
SameHSV(a, b) == RMod1(a[1]) = RMod1(b[1]) /\ a[2] = b[2] /\ a[3] = b[3]

\* the Color that operation k returned
Result(k) == IF k = Len(ops) THEN col ELSE ops[k + 1].from

\* C15: for a valid colour, grey and black included, complementary() applied
\* twice gives a colour with the hue (modulo one turn), saturation and value
\* that the original colour reads.
C15_ComplementaryTwice ==
    \A k \in 1..(Len(ops) - 1) :
        (/\ ops[k].name = "complementary"
         /\ ops[k + 1].name = "complementary"
         /\ ValidHSV(hsv(ops[k].from))) =>
            SameHSV(hsv(Result(k + 1)), hsv(ops[k].from))

C15_Witness ==
    /\ Len(ops) = 2
    /\ ops[1].name = "complementary" /\ ops[2].name = "complementary"
    /\ made[1] # RInt(0) /\ made[2] = RInt(0) /\ made[3] # RInt(0)

\* the channels of x: n is arg, the two others are those of the built values b
ChannelSet(x, n, arg, b) ==
    \A k \in 1..3 : IF k = n THEN x[k] = arg
                    ELSE IF k = 1 THEN RMod1(x[k]) = RMod1(b[k]) ELSE x[k] = b[k]

\* C18: set_hue(x), set_sat(x), set_val(x) with x in [0, 1], on a colour built
\* from valid h, s, v (grey and black included), give a colour that reads x in
\* the named channel and the built values in the two others.
C18_SetChannelKeepsOthers ==
    (Len(ops) = 1 /\ InUnit(ops[1].arg)) =>
        /\ ops[1].name = "set_hue" => ChannelSet(hsv(col), 1, ops[1].arg, made)
        /\ ops[1].name = "set_sat" => ChannelSet(hsv(col), 2, ops[1].arg, made)
        /\ ops[1].name = "set_val" => ChannelSet(hsv(col), 3, ops[1].arg, made)

\* the order of the pattern kinds as C16 lists it
ListedOrder == <<
    <<"H", "U", "E", "_", "S", "H", "I", "F", "T">>,
    <<"L", "E", "R", "P">>,
    <<"T", "I", "N", "T">>,
    <<"S", "H", "A", "D", "E">>,
    <<"C", "O", "M", "P", "L", "E", "M", "E", "N", "T", "A", "R", "Y">>,
    <<"T", "R", "I", "A", "D", "I", "C">>,
    <<"T", "E", "T", "R", "A", "D", "I", "C">>,
    <<"A", "N", "A", "L", "O", "G", "O", "U", "S">>,
    <<"H", "U", "E">>,
    <<"V", "A", "L">>,
    <<"S", "A", "T">>,
    <<"H", "E", "X">>,
    <<"R", "O", "L", "E">>,
    <<"K", "E", "Y">>>>

StrictlyIncreasing(q) == \A a, b \in DOMAIN q : a < b => q[a] < q[b]

T_KEY0_KEY0 == <<"K", "E", "Y", "(", "0", ")", "K", "E", "Y", "(", "0", ")">>

T_ROLEA_KEY0 == <<"R", "O", "L", "E", "(", "a", ")", "K", "E", "Y", "(", "0", ")">>

T_RED_COMPLEMENTARY_HEX == <<"2", "5", "5", ",", " ", "0", ",", " ", "0", ".", "C", "O", "M", "P", "L", "E", "M", "E", "N", "T", "A", "R", "Y", "(", ")", ".", "H", "E", "X">>

T_RED_HUE_SHADE == <<"2", "5", "5", ",", " ", "0", ",", " ", "0", ".", "H", "U", "E", "(", "0", ".", "5", ")", ".", "S", "H", "A", "D", "E", "(", "0", ".", "5", ")">>

T_RED_SHADE_HUE == <<"2", "5", "5", ",", " ", "0", ",", " ", "0", ".", "S", "H", "A", "D", "E", "(", "0", ".", "5", ")", ".", "H", "U", "E", "(", "0", ".", "5", ")">>

HUE == <<"H", "U", "E">>

SHADE == <<"S", "H", "A", "D", "E">>

COMPLEMENTARY == <<"C", "O", "M", "P", "L", "E", "M", "E", "N", "T", "A", "R", "Y">>

\* C16: the patterns are tried in the listed order, once each per pass; a
\* pattern replaces all its matches in one application (KEY(0)KEY(0)), works on
\* the text the earlier patterns of the pass left (COMPLEMENTARY then HEX, ROLE
\* then KEY, SHADE then HUE, in one pass), and a construct that a later pattern
\* exposes is rewritten by an earlier one in the following pass (KEY, then HEX;
\* HUE, then SHADE).
C16_FixedOrder ==
    /\ [i \in 1..Len(match_to_func) |-> match_to_func[i].name] = ListedOrder
    /\ \A k \in DOMAIN passes : StrictlyIncreasing(passes[k])
    /\ pc = "for" => \A a \in DOMAIN passes[Len(passes)] : passes[Len(passes)][a] < pidx
    /\ (Returned /\ Len(keys) >= 1) =>
          /\ input = T_RED_HUE_SHADE =>
                passes = <<<<PatternIndex("func", HUE)>>, <<PatternIndex("func", SHADE)>>, <<>>>>
          /\ input = T_RED_SHADE_HUE =>
                passes = <<<<PatternIndex("func", SHADE), PatternIndex("func", HUE)>>, <<>>>>
          /\ input = T_KEY0_KEY0 => passes = <<<<PatternIndex("key", KEY)>>, <<>>>>
          /\ input = T_KEY0_HEX =>
                passes = <<<<PatternIndex("key", KEY)>>, <<PatternIndex("prop", HEX)>>, <<>>>>
          /\ input = T_RED_COMPLEMENTARY_HEX =>
                passes = <<<<PatternIndex("func", COMPLEMENTARY), PatternIndex("prop", HEX)>>, <<>>>>
          /\ (input = T_ROLEA_KEY0 /\ <<"a">> \in DOMAIN roles) =>
                passes = <<<<PatternIndex("role", ROLE), PatternIndex("key", KEY)>>, <<>>>>

C16_Witness ==
    /\ Returned /\ input = T_RED_HUE_SHADE
    /\ Len(passes) = 3
    /\ template = <<"0", ",", " ", "1", "2", "7", ",", " ", "1", "2", "7">>

\* the texts that begin a construct of the DSL: .NAME( of a function, .NAME of
\* a property, KEY( and ROLE(
TokenTexts ==
    {<<".">> \o FUNCTIONS[i].name \o <<"(">> : i \in DOMAIN FUNCTIONS}
    \cup {<<".">> \o PROPERTIES[i].name : i \in DOMAIN PROPERTIES}
    \cup {KEY \o <<"(">>, ROLE \o <<"(">>}

\* the number of DSL tokens in t: the positions where one begins (no two of
\* them begin at the same position)
Tokens(t) ==
    Cardinality({j \in 1..Len(t) : /\ t[j] \in {".", "K", "R"}
                                   /\ \E x \in TokenTexts : HasAt(t, j, x)})

\* C19: while no evaluation raises, every pass that changed the text removed at
\* least one DSL token and none was created, so the number of passes is at most
\* the number of tokens in the text after the variable pre-pass, plus one.
C19_PassesBoundedByTokens ==
    (pc # "vars" /\ outcome \in {"running", "returned"}) =>
        /\ Tokens(template) + ChangingPasses <= Tokens(loop0)
        /\ Len(passes) <= Tokens(loop0) + 1

C19_Witness ==
    /\ Returned
    /\ Tokens(loop0) >= 2
    /\ Len(passes) = Tokens(loop0) + 1

====
